---- MODULE Spec2Model ----
(***************************************************************************)
(* State-machine model of the trading client of mercadoBTCUtils            *)
(* (src/src/mercadobtc_utils/trading/common.py, class Operations) and of   *)
(* the configuration loading of src/src/mercadoBTCUtils/__init__.py.       *)
(*                                                                         *)
(* Every public method of Operations is one action.  The action carries    *)
(* out the whole call: building the params dict, __build_header,           *)
(* the POST, the interpretation of the response and the post-processing.   *)
(* The variables hold what the latest call did (its wire params, what was  *)
(* signed, the POSTs it issued, what it read of the response, its log      *)
(* lines and its outcome), the configuration, and the wall clock.          *)
(*                                                                         *)
(* Python values are tagged records ([t |-> "int", v |-> 3]); a dict with  *)
(* insertion order is a sequence of <<key, value>> pairs; a str is a TLA+  *)
(* string.  hexdigest() of HMAC-SHA512 is a symbolic term of its key and   *)
(* message.                                                                *)
(*                                                                         *)
(* The analyzer (src/src/mercadobtc_utils/analyzer/public.py, class        *)
(* BasicAnalysis) has its own specification, SpecAnalyzer: one action per  *)
(* method among download_summary_data, summary_to_csv and                  *)
(* read_summary_csv_data, and one for the caller assigning the dates.      *)
(***************************************************************************)
EXTENDS Integers, Sequences, FiniteSets, TLC

VARIABLES
    iniFile,     \* the sections and options of the ini file that was read
    config,      \* the ConfigParser object after module initialisation
    now,         \* the wall clock, in ticks of 1/TicksPerSecond second
    call,        \* the latest invocation: operation name and arguments
    params,      \* the params dict the operation handed to __execute_tapi
    signed,      \* what __build_header fed into the HMAC
    posts,       \* the POST requests issued by the latest invocation
    response,    \* what the remote answered to that POST
    reads,       \* what the latest invocation read of the response
    execResult,  \* what __execute_tapi returned (or that it raised)
    outcome,     \* how the public operation ended: return value or exception
    log,         \* the log records emitted by the latest invocation
    prev,        \* clock and nonce of the request before the latest one
    analysis,    \* the BasicAnalysis object: its dates and its summary data
    acall,       \* the latest invocation of a BasicAnalysis method
    gets,        \* the GET requests that invocation issued, with their answers
    written,     \* the files that invocation wrote
    aoutcome,    \* how that invocation ended: return value or exception
    alog         \* the log records that invocation emitted

\* The state of the analyzer (src/src/mercadobtc_utils/analyzer/public.py).
analyzerVars == <<analysis, acall, gets, written, aoutcome, alog>>

\* The state of the trading client.
tradingVars == <<now, call, params, signed, posts, response, reads,
                 execResult, outcome, log, prev>>

vars == <<iniFile, config, now, call, params, signed, posts, response, reads,
          execResult, outcome, log, prev, analysis, acall, gets, written,
          aoutcome, alog>>

(***************************************************************************)
(* Bounds of the model.                                                    *)
(***************************************************************************)
\* The clock runs over 0..MaxClock ticks.
MaxClock == 2

\* Clock ticks per second: now() has sub-second resolution, the nonce has not.
TicksPerSecond == 2

(***************************************************************************)
(* Python values.                                                          *)
(***************************************************************************)
PyNone == [t |-> "NoneType"]

PyInt(n) == [t |-> "int", v |-> n]

PyBool(b) == [t |-> "bool", v |-> b]

PyStr(s) == [t |-> "str", v |-> s]

\* A float with one decimal digit, held in tenths: 0.5 is PyFloat(5).
PyFloat(tenths) == [t |-> "float", v |-> tenths]

\* A list, as a sequence of elements.
PyList(xs) == [t |-> "list", v |-> xs]

\* A dict whose key order is irrelevant to the code, as a function from keys.
PyDict(d) == [t |-> "dict", v |-> d]

\* Python truthiness, as used by `if assets:` and `'true' if full else 'false'`.
Truthy(x) ==
    CASE x.t = "NoneType" -> FALSE
      [] x.t = "bool"     -> x.v
      [] x.t = "int"      -> x.v # 0
      [] x.t = "float"    -> x.v # 0
      [] x.t = "str"      -> x.v # ""
      [] x.t = "list"     -> Len(x.v) > 0
      [] x.t = "dict"     -> DOMAIN x.v # {}

RECURSIVE JoinInts(_, _)
\* ', '.join of the decimal renderings of a sequence of integers.
JoinInts(xs, sep) ==
    IF Len(xs) = 0 THEN ""
    ELSE IF Len(xs) = 1 THEN ToString(xs[1])
    ELSE ToString(xs[1]) \o sep \o JoinInts(Tail(xs), sep)

\* json.dumps of a list of ints: '[1, 3]'.
dumps(xs) == "[" \o JoinInts(xs, ", ") \o "]"

\* str(x), as urlencode and the f-strings apply it.
Str(x) ==
    CASE x.t = "NoneType" -> "None"
      [] x.t = "bool"     -> IF x.v THEN "True" ELSE "False"
      [] x.t = "int"      -> ToString(x.v)
      [] x.t = "float"    -> ToString(x.v \div 10) \o "." \o ToString(x.v % 10)
      [] x.t = "str"      -> x.v
      [] x.t = "list"     -> dumps(x.v)

(***************************************************************************)
(* urllib.parse.urlencode with its default quote_via=quote_plus.           *)
(***************************************************************************)
\* The characters quote() never escapes.
AlwaysSafe ==
    {"a","b","c","d","e","f","g","h","i","j","k","l","m","n","o","p","q","r",
     "s","t","u","v","w","x","y","z",
     "A","B","C","D","E","F","G","H","I","J","K","L","M","N","O","P","Q","R",
     "S","T","U","V","W","X","Y","Z",
     "0","1","2","3","4","5","6","7","8","9","_",".","-","~"}

\* '%XX' of the reserved characters that occur in the model's inputs.
PercentEncode(c) ==
    CASE c = "[" -> "%5B"
      [] c = "]" -> "%5D"
      [] c = "," -> "%2C"
      [] c = "/" -> "%2F"
      [] c = "&" -> "%26"
      [] c = "=" -> "%3D"
      [] c = "?" -> "%3F"
      [] c = "+" -> "%2B"
      [] c = ":" -> "%3A"
      [] c = "%" -> "%25"

\* What quote() makes of one character: safe characters are kept, the rest
\* become '%XX'; quote_plus turns ' ' into '+'.
QuoteChar(c) ==
    IF c \in AlwaysSafe THEN c
    ELSE IF c = " " THEN "+"
    ELSE PercentEncode(c)

RECURSIVE QuoteFrom(_, _)
\* quote_plus of the characters of s from position i on.
QuoteFrom(s, i) ==
    IF i > Len(s) THEN ""
    ELSE QuoteChar(SubSeq(s, i, i)) \o QuoteFrom(s, i + 1)

\* quote_plus(s)
quote_plus(s) == QuoteFrom(s, 1)

RECURSIVE urlencode(_)
\* urlencode(d): 'k=v' per item in the dict's iteration order, joined by '&'.
urlencode(d) ==
    IF Len(d) = 0 THEN ""
    ELSE LET item == quote_plus(d[1][1]) \o "=" \o quote_plus(Str(d[1][2]))
         IN  IF Len(d) = 1 THEN item
             ELSE item \o "&" \o urlencode(Tail(d))

\* The keys of a dict, in order.
Keys(d) == [i \in 1..Len(d) |-> d[i][1]]

\* The set of keys of a dict.
KeySet(d) == {d[i][1] : i \in 1..Len(d)}

\* d[k] for a key the dict holds.
Get(d, k) == d[CHOOSE i \in 1..Len(d) : d[i][1] = k][2]

(***************************************************************************)
(* The configuration: the ini file, as read at import time.                *)
(***************************************************************************)
\* The options of the MercadoBitcoin section of a complete ini file.
FullSection ==
    [BaseUrl |-> "https://api.example", TapiID |-> "my-id",
     TapiSecret |-> "my-secret"]

\* The ini files of the model: complete, without the MercadoBitcoin section,
\* and with a section that lacks the secret, the identifier or the base URL.
ConfigFiles ==
    { [MercadoBitcoin |-> FullSection],
      [Other |-> [Key |-> "value"]],
      [MercadoBitcoin |-> [BaseUrl |-> "https://api.example",
                           TapiID |-> "my-id"]],
      [MercadoBitcoin |-> [BaseUrl |-> "https://api.example",
                           TapiSecret |-> "my-secret"]],
      [MercadoBitcoin |-> [TapiID |-> "my-id", TapiSecret |-> "my-secret"]] }

\* The section __init__ installs when the file has no MercadoBitcoin section.
DefaultSection ==
    [BaseUrl |-> "https://www.mercadobitcoin.net", TapiID |-> "None",
     TapiSecret |-> "None"]

\* config after import: the file's sections, MercadoBitcoin defaulted.
LoadConfig(file) ==
    IF "MercadoBitcoin" \in DOMAIN file THEN file
    ELSE [s \in DOMAIN file \cup {"MercadoBitcoin"} |->
            IF s = "MercadoBitcoin" THEN DefaultSection ELSE file[s]]

\* Whether config[section][option] exists; a lookup of a missing one raises
\* KeyError.
HasOption(cfg, section, option) ==
    /\ section \in DOMAIN cfg
    /\ option \in DOMAIN cfg[section]

(***************************************************************************)
(* Outcomes of a call, log records, the HMAC.                              *)
(***************************************************************************)
Return(v) == [kind |-> "return", value |-> v]

Raise(exc) == [kind |-> "raise", exc |-> exc]

\* One call of log.<level>(f'{text}{args...}'): the literal text and the
\* values interpolated into it.
LogRec(level, text, args) == [level |-> level, text |-> text, args |-> args]

\* hmac.new(key, digestmod=sha512).update(msg).hexdigest(), as a term.
hmac_sha512(key, msg) == [alg |-> "HMAC-SHA512", key |-> key, msg |-> msg]

\* What a step of a call has produced so far.
Frame(ret, ps, rd, lg, sg) ==
    [ret |-> ret, posts |-> ps, reads |-> rd, log |-> lg, signed |-> sg]

(***************************************************************************)
(* Operations.__build_header                                               *)
(***************************************************************************)
\* Fault: the HMAC is keyed with the identifier instead of the secret.
build_header_KeyedWithId(request_path, request_params, cfg) ==
    IF ~HasOption(cfg, "MercadoBitcoin", "TapiID")
         \/ ~HasOption(cfg, "MercadoBitcoin", "TapiSecret")
      THEN Frame(Raise("KeyError"), <<>>, {}, <<>>, <<>>)
    ELSE
      LET encoded_parameters == urlencode(request_params)
          params_string == request_path \o "?" \o encoded_parameters
          tapi_id == cfg["MercadoBitcoin"]["TapiID"]
      IN  Frame(Return(<< <<"Content-Type", "application/x-www-form-urlencoded">>,
                          <<"TAPI-ID", tapi_id>>,
                          <<"TAPI-MAC", hmac_sha512(tapi_id, params_string)>> >>),
                <<>>, {}, <<>>,
                << [request_path |-> request_path,
                    encoded_parameters |-> encoded_parameters,
                    params_string |-> params_string] >>)

build_header(request_path, request_params, cfg) ==
    LET log0 == << LogRec("info", "Creating a TAPI-HMAC security code", <<>>),
                   LogRec("debug", "Using:", <<>>),
                   LogRec("debug", "- Request Path: ", <<PyStr(request_path)>>),
                   LogRec("debug", "- Parameters  : ", <<request_params>>) >>
        encoded_parameters == urlencode(request_params)
        params_string == request_path \o "?" \o encoded_parameters
    IN  IF ~HasOption(cfg, "MercadoBitcoin", "TapiID")
          THEN Frame(Raise("KeyError"), <<>>, {}, log0, <<>>)
        ELSE IF ~HasOption(cfg, "MercadoBitcoin", "TapiSecret")
          THEN Frame(Raise("KeyError"), <<>>, {}, log0, <<>>)
        ELSE
          LET tapi_id == cfg["MercadoBitcoin"]["TapiID"]
              tapi_secret == cfg["MercadoBitcoin"]["TapiSecret"]
              tapi_mac == hmac_sha512(tapi_secret, params_string)
              headers == << <<"Content-Type", "application/x-www-form-urlencoded">>,
                            <<"TAPI-ID", tapi_id>>,
                            <<"TAPI-MAC", tapi_mac>> >>
          IN  Frame(Return(headers), <<>>, {},
                    log0 \o <<LogRec("info", "Done", <<>>)>>,
                    << [request_path |-> request_path,
                        encoded_parameters |-> encoded_parameters,
                        params_string |-> params_string] >>)

(***************************************************************************)
(* What the remote can answer to a POST.                                   *)
(***************************************************************************)
\* requests.post raising requests.exceptions.ConnectionError.
ConnectionError == [t |-> "ConnectionError"]

\* A requests.Response: HTTP status, reason phrase and body.
HttpResponse(status_code, reason, body) ==
    [t |-> "Response", status_code |-> status_code, reason |-> reason,
     body |-> body]

\* A body that is not JSON (response.json() raises), and a JSON document.
NotJson == [json |-> FALSE]

Json(doc) == [json |-> TRUE, doc |-> doc]

\* The balances an account payload can hold: asset -> amount.
Balances ==
    { [btc |-> PyFloat(10), brl |-> PyFloat(5000)] }

\* The response_data payloads: account information, and an order listing
\* (which has no 'balance' key).
Payloads ==
    { PyDict([balance |-> PyDict(b)]) : b \in Balances }
        \cup { PyDict([orders |-> PyList(<<>>)]) }

\* A missing key of the envelope.
Absent == [t |-> "absent"]

\* The envelope dict holding the keys that are not Absent.
Envelope(sc, em, rd) ==
    LET val(k) == CASE k = "status_code"   -> sc
                    [] k = "error_message" -> em
                    [] k = "response_data" -> rd
    IN  [k \in {x \in {"status_code", "error_message", "response_data"} :
                    val(x) # Absent} |-> val(k)]

\* The envelopes of the model: a success (status_code 100) with each payload,
\* a rejection (status_code 200) with its message, and envelopes that lack a
\* key or carry one they should not.
Envelopes ==
    { Envelope(PyInt(100), Absent, rd) : rd \in Payloads \cup {Absent} }
      \cup { Envelope(PyInt(200), em, Absent) :
                em \in {PyStr("bad nonce"), Absent} }
      \cup { Envelope(PyInt(200), PyStr("bad nonce"), rd) : rd \in Payloads }
      \cup { Envelope(Absent, PyStr("bad nonce"), Absent) }

\* The answers of the remote.
Responses ==
    {ConnectionError}
      \cup { HttpResponse(200, "OK", b) :
                b \in {NotJson} \cup {Json(e) : e \in Envelopes} }
      \cup { HttpResponse(500, "Internal Server Error", b) :
                b \in { NotJson,
                        Json(Envelope(PyInt(100), Absent,
                                      PyDict([orders |-> PyList(<<>>)]))) } }

\* No answer: the call issued no POST.
NoResponse == [t |-> "none"]

(***************************************************************************)
(* Operations.__execute_tapi                                               *)
(***************************************************************************)
\* Fault: the secret is passed along in the query string of the URL.
PostUrl_SecretInQuery(cfg, endpoint) ==
    cfg["MercadoBitcoin"]["BaseUrl"] \o endpoint \o "?secret="
        \o cfg["MercadoBitcoin"]["TapiSecret"]

\* Fault: the POST goes to the endpoint without its trailing slash.
PostUrl_NoTrailingSlash(cfg, endpoint) ==
    cfg["MercadoBitcoin"]["BaseUrl"] \o "/tapi/v3"

\* The URL of the POST (line 77).
PostUrl(cfg, endpoint) == cfg["MercadoBitcoin"]["BaseUrl"] \o endpoint

\* The items of a dict in reverse order.
Reversed(d) == [i \in 1..Len(d) |-> d[Len(d) + 1 - i]]

\* Fault: the body is encoded in another key order than the signed string.
PostData_Reordered(p) == urlencode(Reversed(p))

\* The body of the POST (line 78, data=urlencode(params)).
PostData(p) == urlencode(p)

\* Fault: a request that did not get HTTP 200 is sent a second time.
Transmit_Retry(request, resp) ==
    IF resp.t = "Response" /\ resp.status_code = 200 THEN <<request>>
    ELSE <<request, request>>

\* The calls of requests.post made for one request (line 78): one.
Transmit(request, resp) == <<request>>

\* Fault: only a 404 counts as a transport failure.
TransportFailure_Only404(resp) == resp.status_code = 404

\* response.status_code != 200 (line 79).
TransportFailure(resp) == resp.status_code # 200

\* What is read of a response whose status is not 200 (lines 79-81):
\* its status and its reason phrase.
TransportFailureReads == {"status_code", "reason"}

\* Fault: the success sentinel is taken to be 200.
ApplicationFailure_Sentinel200(doc) == doc["status_code"] # PyInt(200)

\* response_data['status_code'] != 100 (line 83).
ApplicationFailure(doc) == doc["status_code"] # PyInt(100)

\* Fault: the application failure is logged without the server's message.
ApplicationFailureLog_NoMessage(doc) ==
    LogRec("error", "Unable to execute TAPI", <<>>)

\* The log record of an application failure (line 84).
ApplicationFailureLog(doc) ==
    LogRec("error", "Unable to execute TAPI: ", <<doc["error_message"]>>)

\* What __execute_tapi hands back on a failure (lines 81 and 85).
FailureResult(resp) == PyNone

execute_tapi(p, cfg, resp) ==
    LET log0 == <<LogRec("debug", "Creating POST request...", <<>>)>>
        endpoint == "/tapi/v3/"
        h == build_header(endpoint, p, cfg)
        log1 == log0 \o h.log
    IN  IF h.ret.kind = "raise"
          THEN Frame(h.ret, <<>>, {}, log1, h.signed)
        ELSE IF ~HasOption(cfg, "MercadoBitcoin", "BaseUrl")
          THEN Frame(Raise("KeyError"), <<>>, {}, log1, h.signed)
        ELSE
          LET request == [url |-> PostUrl(cfg, endpoint),
                          headers |-> h.ret.value,
                          data |-> PostData(p)]
              sent == Transmit(request, resp)
          IN  IF resp.t = "ConnectionError"
                THEN Frame(Raise("ConnectionError"), sent, {}, log1, h.signed)
              ELSE IF TransportFailure(resp)
                THEN Frame(Return(FailureResult(resp)), sent,
                           TransportFailureReads,
                           log1 \o <<LogRec("error",
                                            "Unable to get account information: ",
                                            <<PyStr(resp.reason)>>)>>,
                           h.signed)
              ELSE IF ~resp.body.json
                THEN Frame(Raise("JSONDecodeError"), sent,
                           {"status_code", "json()"}, log1, h.signed)
              ELSE
                LET response_data == resp.body.doc
                    r1 == {"status_code", "json()", "['status_code']"}
                IN  IF "status_code" \notin DOMAIN response_data
                      THEN Frame(Raise("KeyError"), sent, r1, log1, h.signed)
                    ELSE IF ApplicationFailure(response_data)
                      THEN IF "error_message" \notin DOMAIN response_data
                             THEN Frame(Raise("KeyError"), sent,
                                        r1 \cup {"['error_message']"},
                                        log1, h.signed)
                             ELSE Frame(Return(FailureResult(resp)), sent,
                                        r1 \cup {"['error_message']"},
                                        log1 \o <<ApplicationFailureLog(response_data)>>,
                                        h.signed)
                    ELSE IF "response_data" \notin DOMAIN response_data
                      THEN Frame(Raise("KeyError"), sent,
                                 r1 \cup {"['response_data']"},
                                 log1 \o <<LogRec("info", "Done", <<>>)>>,
                                 h.signed)
                    ELSE Frame(Return(response_data["response_data"]), sent,
                               r1 \cup {"['response_data']"},
                               log1 \o <<LogRec("info", "Done", <<>>)>>,
                               h.signed)

(***************************************************************************)
(* The public operations of Operations.                                    *)
(***************************************************************************)
\* Fault: the nonce keeps the sub-second part of the clock.
tapi_nonce_SubSecond(t) == PyInt(t)

\* Operations.tapi_nonce at clock t: int(dt.datetime.now().timestamp()).
tapi_nonce(t) == PyInt(t \div TicksPerSecond)

\* x[k] of Python, for x a dict or None.
Subscript(x, k) ==
    IF x.t = "NoneType" THEN Raise("TypeError")
    ELSE IF k \notin DOMAIN x.v THEN Raise("KeyError")
    ELSE Return(x.v[k])

\* `key in assets` for a list.
InList(key, xs) == \E i \in 1..Len(xs.v) : xs.v[i] = key

\* Fault: the balance is handed back unfiltered.
FilterBalance_Unfiltered(balance, assets) == balance

\* {key: value for key, value in balance.items() if key in assets}
FilterBalance(balance, assets) ==
    PyDict([key \in {k \in DOMAIN balance.v : InList(k, assets)} |->
                balance.v[key]])

\* What a public operation did: its outcome, the params it built, and what
\* __execute_tapi (e) did on its behalf.
OpResult(ret, p, e, lg) ==
    [ret |-> ret, params |-> p, exec |-> e.ret, posts |-> e.posts,
     reads |-> e.reads, signed |-> e.signed, log |-> lg]

\* The tail shared by all operations but get_account_info: hand back what
\* __execute_tapi returned (an exception of __execute_tapi propagates).
Finish(intro, p, e) ==
    IF e.ret.kind = "raise" THEN OpResult(e.ret, p, e, intro \o e.log)
    ELSE OpResult(Return(e.ret.value), p, e,
                  intro \o e.log \o <<LogRec("info", "Done", <<>>)>>)

\* get_account_info: the params it sends.
AccountInfoParams(assets, t) ==
    << <<"tapi_method", PyStr("get_account_info")>>,
       <<"tapi_nonce", tapi_nonce(t)>> >>

get_account_info(assets, t, cfg, resp) ==
    LET intro == <<LogRec("info", "Requesting account information...", <<>>)>>
        p == AccountInfoParams(assets, t)
        e == execute_tapi(p, cfg, resp)
    IN  IF e.ret.kind = "raise" THEN OpResult(e.ret, p, e, intro \o e.log)
        ELSE
          LET response_data == e.ret.value
              balance == Subscript(response_data, "balance")
          IN  IF balance.kind = "raise"
                THEN OpResult(balance, p, e, intro \o e.log)
              ELSE
                LET return_data == IF Truthy(assets)
                                     THEN FilterBalance(balance.value, assets)
                                     ELSE balance.value
                IN  OpResult(Return(return_data), p, e,
                             intro \o e.log \o <<LogRec("info", "Done", <<>>)>>)

\* Fault: an optional argument is sent only when it is truthy.
Optional_IfTruthy(p, key, arg, value) ==
    IF Truthy(arg) THEN Append(p, <<key, value>>) ELSE p

\* params[key] = value when the argument was supplied (`is not None`).
Optional(p, key, arg, value) ==
    IF arg # PyNone THEN Append(p, <<key, value>>) ELSE p

\* list_orders: the params it sends.
ListOrdersParams(a, t) ==
    LET p0 == << <<"tapi_method", PyStr("list_orders")>>,
                 <<"tapi_nonce", tapi_nonce(t)>>,
                 <<"coin_pair", a.coin_pair>> >>
        p1 == Optional(p0, "order_type", a.order_type, a.order_type)
        p2 == Optional(p1, "status_list", a.status_list,
                       PyStr(dumps(a.status_list.v)))
        p3 == Optional(p2, "has_fills", a.has_fills, a.has_fills)
        p4 == Optional(p3, "from_id", a.from_id, a.from_id)
        p5 == Optional(p4, "to_id", a.to_id, a.to_id)
        p6 == Optional(p5, "from_timestamp", a.from_timestamp,
                       PyStr(Str(a.from_timestamp)))
        p7 == Optional(p6, "to_timestamp", a.to_timestamp,
                       PyStr(Str(a.to_timestamp)))
    IN  p7

list_orders(a, t, cfg, resp) ==
    LET p == ListOrdersParams(a, t)
    IN  Finish(<< LogRec("info", "Requesting all users orders", <<>>),
                  LogRec("debug", "Sanitizing optional parameters...", <<>>) >>,
               p, execute_tapi(p, cfg, resp))

get_order(a, t, cfg, resp) ==
    LET p == << <<"tapi_method", PyStr("get_order")>>,
                <<"tapi_nonce", tapi_nonce(t)>>,
                <<"coin_pair", a.coin_pair>>,
                <<"order_id", a.order_id>> >>
    IN  Finish(<< LogRec("info", "Requesting information on a specific order", <<>>),
                  LogRec("debug", "- coin : ", <<a.coin_pair>>),
                  LogRec("debug", "- order: ", <<a.order_id>>) >>,
               p, execute_tapi(p, cfg, resp))

\* Fault: the flag is put into the params as it was passed.
TrueFalse_Native(flag) == flag

\* 'true' if flag else 'false'
TrueFalse(flag) == PyStr(IF Truthy(flag) THEN "true" ELSE "false")

list_order_book(a, t, cfg, resp) ==
    LET p == << <<"tapi_method", PyStr("list_orderbook")>>,
                <<"tapi_nonce", tapi_nonce(t)>>,
                <<"coin_pair", a.coin_pair>>,
                <<"full", TrueFalse(a.full)>> >>
    IN  Finish(<< LogRec("info", "Getting detailed information regarding the last orders", <<>>),
                  LogRec("debug", "- Coin: ", <<a.coin_pair>>),
                  LogRec("debug", "- Full: ", <<a.full>>) >>,
               p, execute_tapi(p, cfg, resp))

\* Fault: the two method tags are swapped.
PlaceMethod_Swapped(buy) ==
    PyStr(IF Truthy(buy) THEN "place_sell_order" ELSE "place_buy_order")

\* The method tag of place_buy_sell_order (line 269).
PlaceMethod(buy) ==
    PyStr(IF Truthy(buy) THEN "place_buy_order" ELSE "place_sell_order")

place_buy_sell_order(a, t, cfg, resp) ==
    LET p == << <<"tapi_method", PlaceMethod(a.buy)>>,
                <<"tapi_nonce", tapi_nonce(t)>>,
                <<"coin_pair", a.coin_pair>>,
                <<"quantity", a.quantity>>,
                <<"limit_price", a.limit_price>>,
                <<"async", TrueFalse(a.wait)>> >>
    IN  Finish(<< LogRec("info", "Placing a 'buy' order.", <<>>),
                  LogRec("debug", "- Type : ",
                         <<PyStr(IF Truthy(a.buy) THEN "buy" ELSE "sell")>>),
                  LogRec("debug", "- Coin : ", <<a.coin_pair>>),
                  LogRec("debug", "- Qtd  : ", <<a.quantity>>),
                  LogRec("debug", "- Price: R$ ", <<a.limit_price>>),
                  LogRec("debug", "- Wait : ", <<a.wait>>) >>,
               p, execute_tapi(p, cfg, resp))

cancel_order(a, t, cfg, resp) ==
    LET p == << <<"tapi_method", PyStr("cancel_order")>>,
                <<"tapi_nonce", tapi_nonce(t)>>,
                <<"coin_pair", a.coin_pair>>,
                <<"order_id", a.order_id>>,
                <<"async", TrueFalse(a.wait)>> >>
    IN  Finish(<< LogRec("info", "Canceling an open order...", <<>>),
                  LogRec("debug", "- Coin   : ", <<a.coin_pair>>),
                  LogRec("debug", "- Order #: ", <<a.order_id>>),
                  LogRec("debug", "- Wait   : ", <<a.wait>>) >>,
               p, execute_tapi(p, cfg, resp))

(***************************************************************************)
(* The arguments callers pass.                                             *)
(***************************************************************************)
CoinPairs == {PyStr("BRLBTC"), PyStr("BRLLTC")}

\* Asset filters: none, empty, one held asset, a held and an unheld asset.
AssetFilters ==
    { PyNone, PyList(<<>>), PyList(<<"btc">>), PyList(<<"brl", "xrp">>) }

\* Flags: the two booleans.
Flags == {PyBool(TRUE), PyBool(FALSE)}

\* The argument records of list_orders: every optional argument is None or
\* a value, falsy values (0, False, []) included.
ListOrdersArgs ==
    [ coin_pair      : {PyStr("BRLBTC")},
      order_type     : {PyNone, PyInt(0)},
      status_list    : {PyNone, PyList(<<1, 3>>)},
      has_fills      : {PyNone} \cup Flags,
      from_id        : {PyNone, PyInt(0)},
      to_id          : {PyNone, PyInt(7)},
      from_timestamp : {PyNone, PyInt(0)},
      to_timestamp   : {PyNone, PyInt(9)} ]

GetOrderArgs == [coin_pair : CoinPairs, order_id : {PyInt(7)}]

\* What callers pass for full and wait: the booleans, and a falsy and a truthy
\* value that are not booleans.
FlagArgs == Flags \cup {PyInt(0), PyStr("yes")}

ListOrderBookArgs == [coin_pair : CoinPairs, full : FlagArgs]

PlaceOrderArgs ==
    [ buy : Flags, coin_pair : CoinPairs, quantity : {PyFloat(5)},
      limit_price : {PyFloat(1000)}, wait : FlagArgs ]

CancelOrderArgs ==
    [coin_pair : CoinPairs, order_id : {PyInt(7)}, wait : FlagArgs]

(***************************************************************************)
(* BasicAnalysis (src/src/mercadobtc_utils/analyzer/public.py).            *)
(*                                                                         *)
(* A date is its ordinal (date.toordinal()): adding dt.timedelta(days=i)   *)
(* adds i, and (end - initial).days is the difference.  strftime and       *)
(* timestamp are symbolic terms of their arguments.  A DataFrame is its    *)
(* set of columns and the sequence of its rows; the default RangeIndex is  *)
(* the position in the sequence.                                           *)
(***************************************************************************)
\* Days before today at which the range of a new object starts.
DefaultDays == 90

\* The number num_tries is compared with.
MaxTries == 3

\* Dates the caller assigns, and the day the object is constructed, are in
\* 0..MaxDay; only ranges of at most MaxDay days are downloaded.
MaxDay == 4

\* A download concatenates only onto held data of at most MaxHeld rows.
MaxHeld == 1

\* date.strftime(format).
strftime(date, format) == [strftime |-> format, date |-> date]

\* to_datetime(date_string, format='%Y-%m-%d').timestamp().
timestamp(date_string) == [timestamp |-> date_string]

\* f'{base_url}{suffix}' with a formatted date as suffix.
Url(base_url, suffix) == [prefix |-> base_url, suffix |-> suffix]

\* DataFrame(data) of a list of dicts: the columns are the keys that occur.
DataFrame(data) ==
    [t |-> "DataFrame",
     columns |-> UNION {DOMAIN data[i] : i \in 1..Len(data)},
     rows |-> data]

\* __init__: the last DefaultDays days, today excluded.
BasicAnalysis(today) ==
    [initial_summary_date |-> today - DefaultDays,
     end_summary_date |-> today,
     summary_data |-> PyNone]

\* The day summary the remote holds for a date (its other columns left out).
DaySummary(date) == [date |-> strftime(date, "%Y-%m-%d")]

\* What get(url) can do for the request of a date: raise ConnectionError,
\* answer 200 with the day summary, or answer with an error status.
AnswerKinds == {"ok", "down", "error"}

DayAnswer(kind, date) ==
    CASE kind = "ok" -> HttpResponse(200, "OK", Json(DaySummary(date)))
      [] kind = "down" -> ConnectionError
      [] kind = "error" -> HttpResponse(500, "Internal Server Error", NotJson)

\* What a method of BasicAnalysis has done: the object afterwards, the
\* outcome, the GETs, the files written and the log records.
AFrame(self, ret, gs, wr, lg) ==
    [self |-> self, ret |-> ret, gets |-> gs, written |-> wr, log |-> lg]

\* The locals of download_summary_data when the loop starts; exc is the
\* exception that left the loop, if any.
LoopStart(lg) ==
    [data |-> <<>>, num_tries |-> 0, gets |-> <<>>, log |-> lg,
     exc |-> "none"]

\* The caller is not handling an exception when it makes the call.
NotHandling == "none"

\* The exception the caller may be handling (the call is made inside one of
\* its except blocks): none, or a ConnectionError of an earlier attempt.
CallerHandling == {NotHandling, "ConnectionError"}

\* A bare 'raise': it re-raises the exception that is being handled, the
\* caller's when the method itself handles none, and raises RuntimeError
\* when there is none.
BareRaise(handling) ==
    IF handling = NotHandling THEN "RuntimeError" ELSE handling

\* One iteration of the loop, for query_date, get(url) doing answer.
DownloadDay(query_date, base_url, answer, handling, st) ==
    LET url == Url(base_url, strftime(query_date, "%Y/%m/%d/"))
        st1 == [st EXCEPT
                  !.log = Append(@, LogRec("debug", "...",
                              <<strftime(query_date, "%Y-%m-%d")>>)),
                  !.gets = Append(@, [url |-> url, date |-> query_date,
                                      answer |-> answer])]
        \* the try block: what it has done and the exception it raised
        body ==
            IF answer = ConnectionError
            THEN [st1 EXCEPT !.exc = "ConnectionError"]
            ELSE IF answer.status_code # 200
            THEN [st1 EXCEPT !.log = @ \o
                      <<LogRec("error",
                           "There was an error with the actual request: ",
                           <<answer.reason>>),
                        LogRec("error", "Aborting!", <<>>)>>,
                             !.exc = BareRaise(handling)]
            ELSE IF ~answer.body.json
            THEN [st1 EXCEPT !.exc = "JSONDecodeError"]
            ELSE [st1 EXCEPT !.data = Append(@, answer.body.doc),
                             !.num_tries = 0]
    IN  \* except requests.exceptions.ConnectionError
        IF body.exc # "ConnectionError" THEN body
        ELSE IF body.num_tries < MaxTries
        THEN [body EXCEPT !.log = Append(@, LogRec("warning",
                  "We got a Connection Error for the {} time, trying again...",
                  <<body.num_tries + 1>>)),
                          !.exc = "none"]
        ELSE [body EXCEPT !.log = Append(@, LogRec("error",
                  "Too many Connection Errors, aborting.", <<>>))]

\* for i in range(num_days), from iteration i on; answers[i + 1] is what
\* get does in iteration i.
RECURSIVE DownloadLoop(_, _, _, _, _, _, _)
DownloadLoop(i, num_days, initial, base_url, answers, handling, st) ==
    IF i >= num_days \/ st.exc # "none" THEN st
    ELSE DownloadLoop(i + 1, num_days, initial, base_url, answers, handling,
             DownloadDay(initial + i, base_url, answers[i + 1], handling,
                         st))

\* df['tstamp'] = to_datetime(df['date'], ...).apply(timestamp).
AddTstamp(df) ==
    [df EXCEPT
       !.columns = @ \cup {"tstamp"},
       !.rows = [i \in 1..Len(df.rows) |->
                    [date |-> df.rows[i].date,
                     tstamp |-> timestamp(df.rows[i].date)]]]

\* pd.concat([a, b]).reset_index(drop=True).
concat(a, b) ==
    [t |-> "DataFrame", columns |-> a.columns \cup b.columns,
     rows |-> a.rows \o b.rows]

\* Fault: the downloaded data always replaces the held data.
StoreSummary_AlwaysOverride(concatenate, held, df) == df

\* The summary data after a download of df.
StoreSummary(concatenate, held, df) ==
    IF concatenate = PyBool(FALSE) THEN df
    ELSE IF held # PyNone THEN concat(held, df)
    ELSE df

download_summary_data(self, concatenate, cfg, answers, handling) ==
    LET num_days == self.end_summary_date - self.initial_summary_date
        lg0 == <<LogRec("info", "Downloading daily summary data", <<>>),
                 LogRec("debug", "Initial Date: ",
                        <<self.initial_summary_date>>),
                 LogRec("debug", "End Date    : ",
                        <<self.end_summary_date>>)>>
    IN  IF ~HasOption(cfg, "MercadoBitcoin", "BaseUrl")
        THEN AFrame(self, Raise("KeyError"), <<>>, <<>>, lg0)
        ELSE
        LET base_url == cfg["MercadoBitcoin"]["BaseUrl"]
                            \o "/api/BTC/day-summary/"
            lg1 == Append(lg0, LogRec("info",
                       "Getting last {} days of summary data...",
                       <<num_days + 1>>))
            st == DownloadLoop(0, num_days, self.initial_summary_date,
                               base_url, answers, handling,
                               LoopStart(lg1))
        IN  IF st.exc # "none"
            THEN AFrame(self, Raise(st.exc), st.gets, <<>>, st.log)
            ELSE
            LET df == DataFrame(st.data)
                lg2 == st.log \o
                    <<LogRec("debug",
                         "Download complete, creating DataFrame...", <<>>),
                      LogRec("debug", "Calculating dates timestamp", <<>>)>>
            IN  IF "date" \notin df.columns
                THEN AFrame(self, Raise("KeyError"), st.gets, <<>>, lg2)
                ELSE AFrame(
                       [self EXCEPT !.summary_data =
                           StoreSummary(concatenate, self.summary_data,
                                        AddTstamp(df))],
                       Return(PyNone), st.gets, <<>>,
                       Append(lg2, LogRec("info", "Done", <<>>)))

(***************************************************************************)
(* Paths.                                                                  *)
(***************************************************************************)
UpperCase == "ABCDEFGHIJKLMNOPQRSTUVWXYZ"

LowerCase == "abcdefghijklmnopqrstuvwxyz"

\* The first position of character c in s, 0 when it does not occur.
Find(c, s) ==
    LET at == {i \in 1..Len(s) : SubSeq(s, i, i) = c}
    IN  IF at = {} THEN 0 ELSE CHOOSE i \in at : \A j \in at : i <= j

\* str.lower().
RECURSIVE lower(_)
lower(s) ==
    IF s = "" THEN ""
    ELSE LET c == SubSeq(s, 1, 1)
             i == Find(c, UpperCase)
         IN  (IF i = 0 THEN c ELSE SubSeq(LowerCase, i, i))
                 \o lower(SubSeq(s, 2, Len(s)))

\* s.split('.')[-1]: what follows the last dot, all of s when it has none.
LastSegment(s) ==
    LET dots == {i \in 1..Len(s) : SubSeq(s, i, i) = "."}
        last == IF dots = {} THEN 0
                ELSE CHOOSE i \in dots : \A j \in dots : j <= i
    IN  SubSeq(s, last + 1, Len(s))

\* sub in s.
InStr(sub, s) ==
    \E i \in 1..(Len(s) - Len(sub) + 1) :
        SubSeq(s, i, i + Len(sub) - 1) = sub

\* os.path.normpath of a relative POSIX path without '.' and '..'
\* components: repeated separators collapse, a trailing one is dropped.
RECURSIVE normpath(_)
normpath(p) ==
    IF Len(p) <= 1 THEN p
    ELSE IF SubSeq(p, Len(p), Len(p)) = "/"
    THEN normpath(SubSeq(p, 1, Len(p) - 1))
    ELSE IF SubSeq(p, 1, 2) = "//" THEN normpath(SubSeq(p, 2, Len(p)))
    ELSE SubSeq(p, 1, 1) \o normpath(SubSeq(p, 2, Len(p)))

\* The file summary_to_csv writes to: '.csv' is appended unless the last
\* dot-separated part of the path contains 'csv'.
CsvPath(file_path) ==
    LET normalized_file_path == normpath(file_path)
    IN  IF ~InStr("csv", LastSegment(lower(normalized_file_path)))
        THEN normalized_file_path \o ".csv"
        ELSE normalized_file_path

\* summary_to_csv(file_path); writable is whether to_csv can write the file.
summary_to_csv(self, file_path, writable) ==
    LET normalized_file_path == CsvPath(file_path)
        lg0 == <<LogRec("info", "Saving the summary data to a CSV file.", <<>>),
                 LogRec("debug", "File Path: ", <<normalized_file_path>>)>>
    IN  IF self.summary_data = PyNone
        THEN AFrame(self, Return(PyBool(FALSE)), <<>>, <<>>,
                    Append(lg0, LogRec("warning",
                        "Summary is None, maybe it wasn't run yet?", <<>>)))
        ELSE IF Len(self.summary_data.rows) = 0
        THEN AFrame(self, Return(PyBool(FALSE)), <<>>, <<>>,
                    Append(lg0, LogRec("warning",
                        "No summary found.", <<>>)))
        ELSE IF ~writable
        THEN AFrame(self, Raise("OSError"), <<>>, <<>>, lg0)
        ELSE AFrame(self, Return(PyNone), <<>>,
                    <<[path |-> normalized_file_path,
                       data |-> self.summary_data]>>,
                    Append(lg0, LogRec("info", "Done", <<>>)))

\* What pd.read_csv finds at a path: no file, a file with the header only,
\* or a file with the row of one day.
MissingFile == [t |-> "missing"]

CsvFiles ==
    { MissingFile,
      [t |-> "DataFrame", columns |-> {"date", "tstamp"}, rows |-> <<>>],
      AddTstamp(DataFrame(<<DaySummary(0)>>)) }

\* read_summary_csv_data(filePath), file being what is at the path.
read_summary_csv_data(self, filePath, file) ==
    LET lg0 == <<LogRec("info",
                    "Reading a CSV file as a Daily Summary data", <<>>),
                 LogRec("debug", "File: ", <<normpath(filePath)>>)>>
    IN  IF file = MissingFile
        THEN AFrame(self, Raise("FileNotFoundError"), <<>>, <<>>, lg0)
        ELSE AFrame([self EXCEPT !.summary_data = file], Return(PyNone),
                    <<>>, <<>>, Append(lg0, LogRec("info", "Done", <<>>)))

\* Arguments of the calls.
Paths == {"out.csv", "out", "d//OUT.CSV", "out.tsv"}

ConcatenateArgs == {PyBool(TRUE), PyBool(FALSE)}

(***************************************************************************)
(* The state machine.                                                      *)
(***************************************************************************)
NoCall == [op |-> "none"]

NoOutcome == [kind |-> "none"]

NoPrev == [set |-> FALSE]

Init ==
    /\ iniFile \in ConfigFiles
    /\ config = LoadConfig(iniFile)
    /\ now = 0
    /\ call = NoCall
    /\ params = <<>>
    /\ signed = <<>>
    /\ posts = <<>>
    /\ response = NoResponse
    /\ reads = {}
    /\ execResult = NoOutcome
    /\ outcome = NoOutcome
    /\ log = <<>>
    /\ prev = NoPrev
    /\ analysis = BasicAnalysis(0)
    /\ acall = NoCall
    /\ gets = <<>>
    /\ written = <<>>
    /\ aoutcome = NoOutcome
    /\ alog = <<>>

\* Fault: the call writes the URL it posted to back into the configuration.
Invoke_RewritesBaseUrl(op, a, resp, r) ==
    /\ call' = [op |-> op, args |-> a, at |-> now]
    /\ params' = r.params
    /\ signed' = r.signed
    /\ posts' = r.posts
    /\ response' = IF r.posts # <<>> THEN resp ELSE NoResponse
    /\ reads' = r.reads
    /\ execResult' = r.exec
    /\ outcome' = r.ret
    /\ log' = r.log
    /\ config' = IF r.posts # <<>>
                  THEN [config EXCEPT !["MercadoBitcoin"]["BaseUrl"] =
                           r.posts[1].url]
                  ELSE config
    /\ UNCHANGED <<iniFile, now, prev>>
    /\ UNCHANGED analyzerVars

\* One invocation of operation op with arguments a, answered by resp, having
\* done r.
Invoke(op, a, resp, r) ==
    /\ call' = [op |-> op, args |-> a, at |-> now]
    /\ params' = r.params
    /\ signed' = r.signed
    /\ posts' = r.posts
    /\ response' = IF r.posts # <<>> THEN resp ELSE NoResponse
    /\ reads' = r.reads
    /\ execResult' = r.exec
    /\ outcome' = r.ret
    /\ log' = r.log
    /\ UNCHANGED <<iniFile, config, now, prev>>
    /\ UNCHANGED analyzerVars

GetAccountInfo ==
    /\ call = NoCall
    /\ \E assets \in AssetFilters, resp \in Responses :
      \E r \in {get_account_info(assets, now, config, resp)} :
        Invoke("get_account_info", [assets |-> assets], resp, r)

ListOrders ==
    /\ call = NoCall
    /\ \E a \in ListOrdersArgs, resp \in Responses :
      \E r \in {list_orders(a, now, config, resp)} :
        Invoke("list_orders", a, resp, r)

GetOrder ==
    /\ call = NoCall
    /\ \E a \in GetOrderArgs, resp \in Responses :
      \E r \in {get_order(a, now, config, resp)} :
        Invoke("get_order", a, resp, r)

ListOrderBook ==
    /\ call = NoCall
    /\ \E a \in ListOrderBookArgs, resp \in Responses :
      \E r \in {list_order_book(a, now, config, resp)} :
        Invoke("list_order_book", a, resp, r)

PlaceBuySellOrder ==
    /\ call = NoCall
    /\ \E a \in PlaceOrderArgs, resp \in Responses :
      \E r \in {place_buy_sell_order(a, now, config, resp)} :
        Invoke("place_buy_sell_order", a, resp, r)

CancelOrder ==
    /\ call = NoCall
    /\ \E a \in CancelOrderArgs, resp \in Responses :
      \E r \in {cancel_order(a, now, config, resp)} :
        Invoke("cancel_order", a, resp, r)

\* The call has returned (or raised) and its caller proceeds: the request it
\* built becomes the previous one.
Proceed ==
    /\ call # NoCall
    /\ prev' = [set |-> TRUE, at |-> call.at,
                nonce |-> Get(params, "tapi_nonce")]
    /\ call' = NoCall
    /\ params' = <<>>
    /\ signed' = <<>>
    /\ posts' = <<>>
    /\ response' = NoResponse
    /\ reads' = {}
    /\ execResult' = NoOutcome
    /\ outcome' = NoOutcome
    /\ log' = <<>>
    /\ UNCHANGED <<iniFile, config, now>>
    /\ UNCHANGED analyzerVars

\* The wall clock advances.  A call reads the clock once (tapi_nonce), so the
\* clock is observed between calls.
Tick ==
    /\ call = NoCall
    /\ now < MaxClock
    /\ now' = now + 1
    /\ UNCHANGED <<iniFile, config, call, params, signed, posts, response, reads,
                   execResult, outcome, log, prev>>
    /\ UNCHANGED analyzerVars

\* The wall clock is set back (dt.datetime.now() is not monotonic).
ClockSetBack ==
    /\ call = NoCall
    /\ now > 0
    /\ now' \in 0..(now - 1)
    /\ UNCHANGED <<iniFile, config, call, params, signed, posts, response, reads,
                   execResult, outcome, log, prev>>
    /\ UNCHANGED analyzerVars

Next ==
    \/ GetAccountInfo
    \/ ListOrders
    \/ GetOrder
    \/ ListOrderBook
    \/ PlaceBuySellOrder
    \/ CancelOrder
    \/ Proceed
    \/ Tick
    \/ ClockSetBack

Spec == Init /\ [][Next]_vars

TypeOK ==
    /\ now \in 0..MaxClock
    /\ Len(posts) <= 1

(***************************************************************************)
(* The state machine of the analyzer.                                      *)
(***************************************************************************)
\* The ini files the analyzer is run with: complete, and without BaseUrl.
AnalyzerConfigFiles ==
    { [MercadoBitcoin |-> FullSection],
      [MercadoBitcoin |-> [TapiID |-> "my-id", TapiSecret |-> "my-secret"]] }

InitAnalyzer ==
    /\ iniFile \in AnalyzerConfigFiles
    /\ config = LoadConfig(iniFile)
    /\ now = 0
    /\ call = NoCall
    /\ params = <<>>
    /\ signed = <<>>
    /\ posts = <<>>
    /\ response = NoResponse
    /\ reads = {}
    /\ execResult = NoOutcome
    /\ outcome = NoOutcome
    /\ log = <<>>
    /\ prev = NoPrev
    /\ \E today \in 0..MaxDay : analysis = BasicAnalysis(today)
    /\ acall = NoCall
    /\ gets = <<>>
    /\ written = <<>>
    /\ aoutcome = NoOutcome
    /\ alog = <<>>

\* One invocation of method op with arguments a, made while the caller
\* handles the exception handling, and having done r.
AInvoke(op, a, handling, r) ==
    /\ acall' = [op |-> op, args |-> a, handling |-> handling,
                 self |-> analysis]
    /\ analysis' = r.self
    /\ gets' = r.gets
    /\ written' = r.written
    /\ aoutcome' = r.ret
    /\ alog' = r.log
    /\ UNCHANGED <<iniFile, config>>
    /\ UNCHANGED tradingVars

\* The caller assigns the two public date attributes.
SetSummaryDates ==
    /\ acall = NoCall
    /\ \E initial \in 0..MaxDay, end \in 0..MaxDay :
          analysis' = [analysis EXCEPT !.initial_summary_date = initial,
                                       !.end_summary_date = end]
    /\ UNCHANGED <<iniFile, config, acall, gets, written, aoutcome, alog>>
    /\ UNCHANGED tradingVars

DownloadSummaryData ==
    /\ acall = NoCall
    /\ analysis.end_summary_date - analysis.initial_summary_date <= MaxDay
    /\ \E concatenate \in ConcatenateArgs :
          /\ (concatenate = PyBool(TRUE) /\ analysis.summary_data # PyNone)
                => Len(analysis.summary_data.rows) <= MaxHeld
          /\ \E handling \in CallerHandling,
                kinds \in [1..(analysis.end_summary_date
                                 - analysis.initial_summary_date)
                              -> AnswerKinds] :
                LET answers ==
                        [i \in DOMAIN kinds |->
                            DayAnswer(kinds[i],
                                analysis.initial_summary_date + i - 1)]
                IN  AInvoke("download_summary_data",
                            [concatenate |-> concatenate], handling,
                            download_summary_data(analysis, concatenate,
                                                  config, answers,
                                                  handling))

SummaryToCsv ==
    /\ acall = NoCall
    /\ \E file_path \in Paths, writable \in BOOLEAN :
          AInvoke("summary_to_csv", [file_path |-> file_path], NotHandling,
                  summary_to_csv(analysis, file_path, writable))

ReadSummaryCsvData ==
    /\ acall = NoCall
    /\ \E filePath \in Paths, file \in CsvFiles :
          AInvoke("read_summary_csv_data", [filePath |-> filePath],
                  NotHandling, read_summary_csv_data(analysis, filePath, file))

\* The caller has the outcome of the latest invocation and goes on.
AProceed ==
    /\ acall # NoCall
    /\ acall' = NoCall
    /\ gets' = <<>>
    /\ written' = <<>>
    /\ aoutcome' = NoOutcome
    /\ alog' = <<>>
    /\ UNCHANGED <<iniFile, config, analysis>>
    /\ UNCHANGED tradingVars

NextAnalyzer ==
    \/ SetSummaryDates
    \/ DownloadSummaryData
    \/ SummaryToCsv
    \/ ReadSummaryCsvData
    \/ AProceed

SpecAnalyzer == InitAnalyzer /\ [][NextAnalyzer]_vars

(***************************************************************************)
(* Vocabulary of the properties.                                           *)
(***************************************************************************)
\* A call has been made and its outcome is in the state.
Called == call # NoCall

\* The latest call issued its POST and the remote answered with an HTTP
\* response.
Answered == Called /\ posts # <<>> /\ response.t = "Response"

\* The answer is HTTP 200 with a JSON envelope that has a status_code.
HasEnvelope ==
    /\ Answered
    /\ response.status_code = 200
    /\ response.body.json
    /\ "status_code" \in DOMAIN response.body.doc

\* The envelope of the answer.
Doc == response.body.doc

\* The answer is an application failure that carries a message.
RejectedWithMessage ==
    /\ HasEnvelope
    /\ Doc["status_code"] # PyInt(100)
    /\ "error_message" \in DOMAIN Doc

\* The answer is a failure as the remote API reports one: HTTP status not
\* 200, or an envelope with a status_code other than 100 and its message.
FailureAnswer ==
    \/ Answered /\ response.status_code # 200
    \/ RejectedWithMessage

\* A Python value carries the message m: it is m, or a list or dict holding m.
Carries(x, m) ==
    \/ x = m
    \/ x.t = "list" /\ \E i \in 1..Len(x.v) : x.v[i] = m
    \/ x.t = "dict" /\ \E k \in DOMAIN x.v : x.v[k] = m

(***************************************************************************)
(* C1: when the HTTP status is not 200 or the envelope status_code is not  *)
(* 100, every public operation returns the failure result (None) to its    *)
(* caller and no exception escapes.  The code violates it:                 *)
(* get_account_info subscripts the None that __execute_tapi returned.      *)
(***************************************************************************)
C1_FailureIsReturned ==
    FailureAnswer => outcome = Return(PyNone)

(***************************************************************************)
(* C2, as claimed: on HTTP 200 with an envelope whose status_code is not   *)
(* 100, the failure result returned to the caller carries the server's     *)
(* error_message (stated of the calls that return a result).               *)
(***************************************************************************)
C2_ResultCarriesMessage ==
    (RejectedWithMessage /\ outcome.kind = "return") =>
        Carries(outcome.value, Doc["error_message"])

(***************************************************************************)
(* C2, amended: on HTTP 200 with an envelope whose status_code is not 100  *)
(* and that has an error_message, __execute_tapi returns None, which does  *)
(* not carry the message; the server's error_message is carried by the     *)
(* error record __execute_tapi logs.                                       *)
(***************************************************************************)
C2_MessageIsLogged ==
    RejectedWithMessage =>
        /\ execResult = Return(PyNone)
        /\ \E i \in 1..Len(log) :
              /\ log[i].level = "error"
              /\ log[i].args = <<Doc["error_message"]>>

C2_Witness ==
    /\ RejectedWithMessage
    /\ Doc["error_message"] = PyStr("bad nonce")
    /\ call.op = "list_orders"
    /\ outcome = Return(PyNone)

(***************************************************************************)
(* C3: when the HTTP status is not 200, __execute_tapi returns the failure *)
(* result without parsing the body as JSON and without reading             *)
(* status_code, error_message or response_data of an envelope.             *)
(***************************************************************************)
C3_NoParseOnTransportFailure ==
    (Answered /\ response.status_code # 200) =>
        /\ execResult = Return(PyNone)
        /\ reads \cap {"json()", "['status_code']", "['error_message']",
                       "['response_data']"} = {}

\* A 500 whose body is a well-formed success envelope: it is not looked at.
C3_Witness ==
    /\ Answered
    /\ response.status_code = 500
    /\ response.body.json
    /\ execResult = Return(PyNone)

(***************************************************************************)
(* C4: on HTTP 200 with an envelope whose status_code is 100,              *)
(* __execute_tapi returns exactly the envelope's response_data; and        *)
(* whenever it returns a payload (anything but None), the answer was HTTP  *)
(* 200 with status_code 100 and the payload is that response_data.         *)
(***************************************************************************)
C4_PayloadIffSuccess ==
    /\ ( /\ HasEnvelope
         /\ Doc["status_code"] = PyInt(100)
         /\ "response_data" \in DOMAIN Doc )
          => execResult = Return(Doc["response_data"])
    /\ (Called /\ execResult.kind = "return" /\ execResult.value # PyNone)
          => /\ HasEnvelope
             /\ Doc["status_code"] = PyInt(100)
             /\ "response_data" \in DOMAIN Doc
             /\ execResult.value = Doc["response_data"]

C4_Witness ==
    /\ HasEnvelope
    /\ Doc["status_code"] = PyInt(100)
    /\ "response_data" \in DOMAIN Doc
    /\ execResult.kind = "return"
    /\ execResult.value = PyDict([orders |-> PyList(<<>>)])

(***************************************************************************)
(* C5: for every request sent, the encoded parameter string fed into the   *)
(* signature (the part of the signed string after the '?') is identical    *)
(* to the POST body transmitted with that signature.                       *)
(***************************************************************************)
C5_SignedEqualsBody ==
    (Called /\ posts # <<>>) =>
        /\ Len(signed) = 1
        /\ \A i \in 1..Len(posts) :
              /\ posts[i].data = signed[1].encoded_parameters
              /\ posts[i].headers[3][2].msg
                    = signed[1].request_path \o "?" \o posts[i].data

\* A list_orders request whose status_list needs escaping was posted.
C5_Witness ==
    /\ Called
    /\ Len(posts) = 1
    /\ call.op = "list_orders"
    /\ call.args.status_list = PyList(<<1, 3>>)
    /\ call.args.to_id # PyNone
    /\ posts[1].data =
          "tapi_method=list_orders&tapi_nonce=0&coin_pair=BRLBTC&status_list=%5B1%2C+3%5D&to_id=7"

(***************************************************************************)
(* C6: for every request sent, the path covered by the signature equals    *)
(* the path appended to the base URL for the POST, and both are            *)
(* '/tapi/v3/'.                                                            *)
(***************************************************************************)
C6_SignedPathIsPostedPath ==
    (Called /\ posts # <<>>) =>
        /\ Len(signed) = 1
        /\ signed[1].request_path = "/tapi/v3/"
        /\ \A i \in 1..Len(posts) :
              posts[i].url
                = config["MercadoBitcoin"]["BaseUrl"] \o signed[1].request_path

C6_Witness ==
    /\ Called
    /\ Len(posts) = 1
    /\ call.op = "cancel_order"
    /\ posts[1].url = "https://api.example/tapi/v3/"

(***************************************************************************)
(* C7: an invocation of a public operation issues exactly one POST,        *)
(* whatever the answer (success, transport failure, application failure):  *)
(* never more than one, and exactly one whenever the operation returns a   *)
(* result or the configuration holds the base URL and the credentials.     *)
(***************************************************************************)
C7_ExactlyOnePost ==
    Called =>
        /\ Len(posts) <= 1
        /\ outcome.kind = "return" => Len(posts) = 1
        /\ (\A o \in {"BaseUrl", "TapiID", "TapiSecret"} :
                HasOption(config, "MercadoBitcoin", o)) => Len(posts) = 1

\* A transport failure, answered once and not retried.
C7_Witness ==
    /\ Answered
    /\ response.status_code = 500
    /\ outcome = Return(PyNone)
    /\ Len(posts) = 1

(***************************************************************************)
(* C8: in list_orders each optional key is in the wire params if and only  *)
(* if the caller supplied the argument (it is not None); with no optional  *)
(* argument the wire params are exactly tapi_method, tapi_nonce and        *)
(* coin_pair; a supplied falsy value (order_type=0, has_fills=False) is    *)
(* still sent.                                                             *)
(***************************************************************************)
OptionalKeys ==
    {"order_type", "status_list", "has_fills", "from_id", "to_id",
     "from_timestamp", "to_timestamp"}

C8_OptionalIffSupplied ==
    (Called /\ call.op = "list_orders") =>
        /\ \A k \in OptionalKeys :
              k \in KeySet(params) <=> call.args[k] # PyNone
        /\ KeySet(params) \ OptionalKeys
              = {"tapi_method", "tapi_nonce", "coin_pair"}
        /\ Len(params) = Cardinality(KeySet(params))
        /\ (\A k \in OptionalKeys : call.args[k] = PyNone)
              => Keys(params) = <<"tapi_method", "tapi_nonce", "coin_pair">>
        /\ call.args.order_type = PyInt(0)
              => Get(params, "order_type") = PyInt(0)
        /\ call.args.has_fills = PyBool(FALSE)
              => "has_fills" \in KeySet(params)

\* Falsy values supplied, the other optional arguments left out.
C8_Witness ==
    /\ Called
    /\ call.op = "list_orders"
    /\ call.args.order_type = PyInt(0)
    /\ call.args.has_fills = PyBool(FALSE)
    /\ Keys(params) = <<"tapi_method", "tapi_nonce", "coin_pair",
                        "order_type", "has_fills">>

(***************************************************************************)
(* C9: get_account_info with a non-empty asset filter, on a successful     *)
(* response, returns exactly the restriction of the returned balance to    *)
(* the keys of the filter (values unchanged, no key added); the filter is  *)
(* never sent: the wire params hold only tapi_method and tapi_nonce.       *)
(***************************************************************************)
\* The answer is a success whose payload has a balance.
BalanceReturned ==
    /\ HasEnvelope
    /\ Doc["status_code"] = PyInt(100)
    /\ "response_data" \in DOMAIN Doc
    /\ "balance" \in DOMAIN Doc["response_data"].v

C9_LocalAssetFilter ==
    (Called /\ call.op = "get_account_info") =>
        /\ Keys(params) = <<"tapi_method", "tapi_nonce">>
        /\ (BalanceReturned /\ Truthy(call.args.assets)) =>
              LET balance == Doc["response_data"].v["balance"].v
                  wanted == {call.args.assets.v[i] :
                                i \in 1..Len(call.args.assets.v)}
              IN  /\ outcome.kind = "return"
                  /\ outcome.value.t = "dict"
                  /\ DOMAIN outcome.value.v = DOMAIN balance \cap wanted
                  /\ \A k \in DOMAIN outcome.value.v :
                        outcome.value.v[k] = balance[k]

\* assets=['brl', 'xrp'] against {btc: 1.0, brl: 500.0} gives {brl: 500.0}.
C9_Witness ==
    /\ Called
    /\ call.op = "get_account_info"
    /\ BalanceReturned
    /\ call.args.assets = PyList(<<"brl", "xrp">>)
    /\ outcome = Return(PyDict([brl |-> PyFloat(5000)]))

(***************************************************************************)
(* C10: the freshness token of a request is the whole-second wall-clock    *)
(* time read when the request is built, never a value kept from an earlier *)
(* call: two requests built within the same clock second carry equal       *)
(* tokens, and when the clock has not gone back between two consecutive    *)
(* requests the token has not decreased.                                   *)
(***************************************************************************)
\* The whole second a clock reading lies in.
SecondOf(t) == t \div TicksPerSecond

C11_FlagsAreStringLiterals ==
    /\ (Called /\ call.op = "list_order_book") =>
          /\ Get(params, "full") \in {PyStr("true"), PyStr("false")}
          /\ Get(params, "full") = PyStr("true") <=> Truthy(call.args.full)
    /\ (Called /\ call.op \in {"place_buy_sell_order", "cancel_order"}) =>
          Get(params, "async") \in {PyStr("true"), PyStr("false")}

\* full=True posted as the literal 'true'.
C11_Witness ==
    /\ Called
    /\ call.op = "list_order_book"
    /\ call.args.full = PyBool(TRUE)
    /\ Len(posts) = 1
    /\ posts[1].data
          = "tapi_method=list_orderbook&tapi_nonce=0&coin_pair=BRLBTC&full=true"

(***************************************************************************)
(* C12: when the credentials are missing (the ini file has no              *)
(* MercadoBitcoin section, or the section has no identifier or no secret), *)
(* a trading operation fails with a configuration error before any HTTP    *)
(* request is issued.  The code violates it for a file without the         *)
(* section: __init__ installs the placeholders 'None' and the request is   *)
(* signed with them and sent.                                              *)
(***************************************************************************)
\* The ini file configures no identifier or no secret.
CredentialsMissing ==
    \/ "MercadoBitcoin" \notin DOMAIN iniFile
    \/ "TapiID" \notin DOMAIN iniFile["MercadoBitcoin"]
    \/ "TapiSecret" \notin DOMAIN iniFile["MercadoBitcoin"]

C12_MissingCredentialsFailFast ==
    (Called /\ CredentialsMissing) =>
        /\ outcome.kind = "raise"
        /\ posts = <<>>

(***************************************************************************)
(* C13: in every reachable state the shared secret itself appears in no    *)
(* log record, no request header, no request URL and no request body: of   *)
(* the credentials only the identifier (TAPI-ID) and the signature derived *)
(* from the secret (TAPI-MAC) are transmitted.  Stated for an ini file     *)
(* that configures a secret.                                               *)
(***************************************************************************)
\* The ini file configures a secret.
SecretConfigured ==
    /\ "MercadoBitcoin" \in DOMAIN iniFile
    /\ "TapiSecret" \in DOMAIN iniFile["MercadoBitcoin"]

\* The string sub occurs in the string s.
Contains(s, sub) ==
    \E i \in 1..(Len(s) - Len(sub) + 1) :
        SubSeq(s, i, i + Len(sub) - 1) = sub

\* The secret occurs in the rendering of a log record: in its text or in a
\* value interpolated into it (the params dict, for the record that prints
\* it).
SecretInLogRecord(rec, secret) ==
    \/ Contains(rec.text, secret)
    \/ /\ rec.text = "- Parameters  : "
       /\ \E j \in 1..Len(rec.args[1]) :
             \/ Contains(rec.args[1][j][1], secret)
             \/ Contains(Str(rec.args[1][j][2]), secret)
    \/ /\ rec.text # "- Parameters  : "
       /\ \E j \in 1..Len(rec.args) : Contains(Str(rec.args[j]), secret)

C13_SecretNeverLeaves ==
    (Called /\ SecretConfigured) =>
        LET secret == iniFile["MercadoBitcoin"]["TapiSecret"]
        IN  /\ \A i \in 1..Len(log) : ~SecretInLogRecord(log[i], secret)
            /\ \A i \in 1..Len(posts) :
                  /\ ~Contains(posts[i].url, secret)
                  /\ ~Contains(posts[i].data, secret)
                  /\ Len(posts[i].headers) = 3
                  /\ posts[i].headers[1][1] = "Content-Type"
                  /\ ~Contains(posts[i].headers[1][2], secret)
                  /\ posts[i].headers[2][1] = "TAPI-ID"
                  /\ ~Contains(posts[i].headers[2][2], secret)
                  /\ posts[i].headers[3][1] = "TAPI-MAC"
                  /\ posts[i].headers[3][2].alg = "HMAC-SHA512"

\* A request signed with the configured secret was posted and logged.
C13_Witness ==
    /\ Called
    /\ SecretConfigured
    /\ Len(posts) = 1
    /\ posts[1].headers[2][2] = "my-id"
    /\ posts[1].headers[3][2].key = "my-secret"
    /\ Len(log) > 4

(***************************************************************************)
(* C14: every request carries exactly three headers: Content-Type equal to *)
(* 'application/x-www-form-urlencoded', TAPI-ID equal to the configured    *)
(* identifier, and TAPI-MAC equal to the HMAC-SHA512, keyed with the       *)
(* configured secret, of '{path}?{encoded params}' for the path of that    *)
(* request's URL and the params of that request.                           *)
(***************************************************************************)
C14_ThreeHeaders ==
    (Called /\ posts # <<>>) =>
        \A i \in 1..Len(posts) :
            /\ posts[i].url = config["MercadoBitcoin"]["BaseUrl"] \o "/tapi/v3/"
            /\ posts[i].headers =
                  << <<"Content-Type", "application/x-www-form-urlencoded">>,
                     <<"TAPI-ID", config["MercadoBitcoin"]["TapiID"]>>,
                     <<"TAPI-MAC",
                       hmac_sha512(config["MercadoBitcoin"]["TapiSecret"],
                                   "/tapi/v3/" \o "?" \o urlencode(params))>> >>

\* The headers of a get_order request under the complete ini file.
C14_Witness ==
    /\ Called
    /\ call.op = "get_order"
    /\ Len(posts) = 1
    /\ posts[1].headers[2] = <<"TAPI-ID", "my-id">>
    /\ posts[1].headers[3][2].key = "my-secret"
    /\ posts[1].headers[3][2].msg
          = "/tapi/v3/?tapi_method=get_order&tapi_nonce=0&coin_pair=BRLBTC&order_id=7"

(***************************************************************************)
(* C16: in place_buy_sell_order and cancel_order, wait=True asks the       *)
(* remote to complete the operation before answering and wait=False asks   *)
(* it to return as soon as possible: 'async' is 'false' exactly when wait  *)
(* is True and 'true' exactly when wait is False.  The code violates it:   *)
(* it sends 'true' if wait else 'false'.                                   *)
(***************************************************************************)
C16_AsyncIsNotWait ==
    (Called /\ call.op \in {"place_buy_sell_order", "cancel_order"}) =>
        /\ call.args.wait = PyBool(TRUE)
              => Get(params, "async") = PyStr("false")
        /\ call.args.wait = PyBool(FALSE)
              => Get(params, "async") = PyStr("true")

(***************************************************************************)
(* C17: place_buy_sell_order sends tapi_method 'place_buy_order' when and  *)
(* only when its buy argument is true, and 'place_sell_order' otherwise.   *)
(***************************************************************************)
C17_MethodFollowsBuy ==
    (Called /\ call.op = "place_buy_sell_order") =>
        /\ Get(params, "tapi_method")
              \in {PyStr("place_buy_order"), PyStr("place_sell_order")}
        /\ Get(params, "tapi_method") = PyStr("place_buy_order")
              <=> call.args.buy = PyBool(TRUE)
        /\ Get(params, "tapi_method") = PyStr("place_sell_order")
              <=> call.args.buy = PyBool(FALSE)
        /\ \A i \in 1..Len(posts) :
              posts[i].data = urlencode(params)

\* A sell order, posted with its tag.
C17_Witness ==
    /\ Called
    /\ call.op = "place_buy_sell_order"
    /\ call.args.buy = PyBool(FALSE)
    /\ call.args.wait = PyBool(TRUE)
    /\ Len(posts) = 1
    /\ posts[1].data
          = "tapi_method=place_sell_order&tapi_nonce=0&coin_pair=BRLBTC&quantity=0.5&limit_price=100.0&async=true"

(***************************************************************************)
(* Vocabulary of the analyzer's properties.                                *)
(***************************************************************************)
\* The latest analyzer call is a download_summary_data.
Downloaded == acall.op = "download_summary_data"

\* The number of connection errors in a row that ends at request i.
RECURSIVE ErrorStreak(_)
ErrorStreak(i) ==
    IF i = 0 \/ gets[i].answer # ConnectionError THEN 0
    ELSE 1 + ErrorStreak(i - 1)

\* The records the latest download received, in the order of the requests.
RECURSIVE ReceivedFrom(_)
ReceivedFrom(i) ==
    IF i > Len(gets) THEN <<>>
    ELSE IF gets[i].answer # ConnectionError
            /\ gets[i].answer.status_code = 200
         THEN <<[date |-> gets[i].answer.body.doc.date,
                 tstamp |-> timestamp(gets[i].answer.body.doc.date)]>>
                  \o ReceivedFrom(i + 1)
         ELSE ReceivedFrom(i + 1)

(***************************************************************************)
(* C18: in download_summary_data, a day's request that fails with a        *)
(* connection error is tried again, up to 3 times, and the 4th connection  *)
(* error in a row is raised to the caller.  The code violates it: after a  *)
(* connection error the loop goes on to the next date, and num_tries is    *)
(* never incremented.                                                      *)
(***************************************************************************)
C18_ConnectionErrorIsRetried ==
    Downloaded =>
        \A i \in 1..Len(gets) :
            gets[i].answer = ConnectionError =>
                IF ErrorStreak(i) <= MaxTries
                THEN /\ i < Len(gets)
                     /\ gets[i + 1].date = gets[i].date
                ELSE /\ i = Len(gets)
                     /\ aoutcome = Raise("ConnectionError")

(***************************************************************************)
(* C19: summary_to_csv returns True when the summary data is non-empty     *)
(* and the file is saved, and returns False without writing any file when  *)
(* the summary data is None or has no rows.  The code violates the first   *)
(* part: after to_csv it falls off the end and returns None.               *)
(***************************************************************************)
C19_SummaryToCsvResult ==
    acall.op = "summary_to_csv" =>
        LET held == acall.self.summary_data
        IN  /\ (held = PyNone \/ Len(held.rows) = 0)
                  => /\ aoutcome = Return(PyBool(FALSE))
                     /\ written = <<>>
            /\ (held # PyNone /\ Len(held.rows) > 0 /\ written # <<>>)
                  => aoutcome = Return(PyBool(TRUE))

C21_ConfigurationIsFrozen ==
    /\ config = LoadConfig(iniFile)
    /\ (Called /\ posts # <<>>) =>
          LET initial == LoadConfig(iniFile)["MercadoBitcoin"]
          IN  /\ posts[1].url = initial["BaseUrl"] \o "/tapi/v3/"
              /\ posts[1].headers[2] = <<"TAPI-ID", initial["TapiID"]>>
              /\ posts[1].headers[3][2].key = initial["TapiSecret"]

\* A request issued after an earlier call, with the complete configuration.
C21_Witness ==
    /\ prev.set
    /\ Called
    /\ Len(posts) = 1
    /\ outcome.kind = "return"
    /\ config["MercadoBitcoin"] = FullSection

(***************************************************************************)
(* C24: when has_fills is supplied to list_orders, the value placed in     *)
(* the wire params is the string literal 'true' (for True) or 'false'      *)
(* (for False), as for the other boolean flags, never a native boolean.    *)
(* The code violates it: it stores the argument itself, which urlencode    *)
(* renders as 'True' or 'False'.                                           *)
(***************************************************************************)
C24_HasFillsIsLiteral ==
    (Called /\ call.op = "list_orders" /\ call.args.has_fills # PyNone) =>
        /\ Get(params, "has_fills")
              = PyStr(IF call.args.has_fills.v THEN "true" ELSE "false")
        /\ \A i \in 1..Len(posts) :
              \/ Contains(posts[i].data, "has_fills=true")
              \/ Contains(posts[i].data, "has_fills=false")


\* The rows the latest download added to the summary data: all of them, or
\* those after the held ones when it concatenated.
NewRows ==
    LET held == acall.self.summary_data
        kept == IF acall.args.concatenate = PyBool(TRUE) /\ held # PyNone
                THEN Len(held.rows) ELSE 0
    IN  SubSeq(analysis.summary_data.rows, kept + 1,
               Len(analysis.summary_data.rows))

(***************************************************************************)
(* C22: whenever download_summary_data returns normally, the newly         *)
(* downloaded data holds exactly one record for every date from the        *)
(* initial summary date (inclusive) to the end summary date (exclusive),   *)
(* in ascending order, whatever connection errors occurred.  The code      *)
(* violates it: a date whose request got a connection error is skipped.    *)
(***************************************************************************)
C22_OneRecordPerDate ==
    (Downloaded /\ aoutcome.kind = "return") =>
        LET first == acall.self.initial_summary_date
            num_days == acall.self.end_summary_date - first
        IN  /\ Len(NewRows) = num_days
            /\ \A i \in 1..Len(NewRows) :
                  NewRows[i].date = strftime(first + i - 1, "%Y-%m-%d")

\* The latest download got a non-200 answer to one of its requests.
GotErrorStatus ==
    \E i \in 1..Len(gets) :
        /\ gets[i].answer # ConnectionError
        /\ gets[i].answer.status_code # 200

(***************************************************************************)
(* C23: if any day's request in download_summary_data answers with a       *)
(* non-200 status, the download aborts: no request for a later date is     *)
(* issued, an exception reaches the caller, and the previously held        *)
(* summary data is left unchanged.  The code violates it when the call is  *)
(* made while a ConnectionError is being handled: the bare 'raise'         *)
(* re-raises that ConnectionError, which the loop's own except clause      *)
(* catches, and the loop goes on.                                          *)
(***************************************************************************)
C23_ErrorStatusAborts ==
    (Downloaded /\ GotErrorStatus) =>
        /\ gets[Len(gets)].answer # ConnectionError
        /\ gets[Len(gets)].answer.status_code # 200
        /\ aoutcome.kind = "raise"
        /\ analysis.summary_data = acall.self.summary_data

====
